---- MODULE Spec2Model ----
(***************************************************************************)
(* Model of the resumable scraper of src/bulk.py: main() with its page     *)
(* loop, scrape_page(), the detail-fetch orchestrator (the asyncio path    *)
(* fetch_job_details_async and the sequential fallback                     *)
(* fetch_job_details_sync), save_progress/load_progress, save_batch and    *)
(* consolidate_data, and of extract_job_details.                           *)
(*                                                                         *)
(* The disk (progress file, batch files, consolidated output) survives a   *)
(* process exit; Restart starts the program again on the same disk, so a   *)
(* resumed run is a run that follows an earlier run of the model.          *)
(*                                                                         *)
(* A KeyboardInterrupt is delivered while the process is blocked in a      *)
(* network call or a sleep (the listing request, the detail fetches, the   *)
(* rate-limiting delay, the bootstrap request), which is where the run     *)
(* spends its time.                                                        *)
(*                                                                         *)
(* Scaling: BATCH_SIZE is 100 and max_concurrent is 12 in the source, and  *)
(* a listing page carries up to RESULTS_PER_PAGE = 50 offers.  The model   *)
(* keeps the code's comparisons and scales the three sizes down together   *)
(* so that a page can exceed the concurrency bound and a few pages fill a  *)
(* batch.                                                                  *)
(*                                                                         *)
(* Specifications: SpecFetch is one run over a wide page (more offers than *)
(* permits), SpecRun one run over several narrow pages, starting from any  *)
(* progress file a run can find before a batch exists, and Spec is a       *)
(* sequence of runs on one disk.  SpecConsolidate starts the program on a  *)
(* disk whose pages are all done, so that each start only consolidates the *)
(* batch directory it finds; SpecExtract is one call of                    *)
(* extract_job_details on a detail page and a listing record.              *)
(***************************************************************************)
EXTENDS Integers, Sequences, FiniteSets, TLC

\* ---------------------------------------------------------------- bounds
\* SpecFetch: one wide page, to exercise the orchestrator.
FetchPages == 1        \* largest total_pages the bootstrap reports
FetchJobs == 3         \* most offers on one listing page
\* SpecRun and Spec: several narrow pages, to exercise batching and
\* resuming.
RunPages == 2
RunJobs == 2
\* Spec: the program started again on the disk an earlier run left.
MaxRuns == 2
\* Sizes of the program, scaled (see above).
BATCH_SIZE == 2        \* bulk.py:724 (100)
max_concurrent == 2    \* bulk.py:389 (12)
\* SpecConsolidate: the batch directory an earlier run left.
MaxDirJobs == 3        \* most records in the directory, all files together
\* SpecExtract: one detail page.
MaxSections == 2       \* most entries of the page's 'sections' list
\* SpecDelay: one call of add_rate_limiting_delay.
MaxPageNumber == 210   \* largest page number the delay is computed for

\* Python's None for start_page / total_pages (load_progress returns
\* None, None, 0 when there is nothing to resume).
None == -1

VARIABLES
    \* disk
    progress_file,      \* <<>> or <<[current_page, total_pages, jobs_collected]>>
    batch_files,        \* batch number -> [run, jobs]
    consolidated_file,  \* <<>> or <<[run, jobs]>>
    dir_listing,        \* batch file numbers as os.listdir last returned them
    \* process
    run,                \* ordinal of this program start
    pc,
    start_page, total_pages, jobs_collected,
    current_page, current_batch, batch_number,
    \* one page
    job_listings,       \* extract_job_listings result of the current page
    enhanced_listings,  \* what scrape_page returns to main
    task,               \* state of fetch_one_job(job, i)
    results,            \* return value of task i
    semaphore,          \* free permits of asyncio.Semaphore(max_concurrent)
    completed,          \* indices in order of completion
    detail_requests,    \* GETs issued for job i on this page
    \* history of the run
    requested,          \* listing pages requested, in order
    bootstrapped,       \* the bootstrap GET of BASE_URL was issued
    loaded,             \* what load_progress returned to main
    exit_cause,         \* why the run left the loop / returned
    \* one call of extract_job_details(html, job_listing)
    detail_pc,          \* "idle", "called" or "returned"
    job_offer_data,     \* the jobOffer query data of the detail page
    job_listing,        \* the dict passed in, merged into in place
    job_before,         \* its value when the call was made
    \* one call of a function of the listing side
    fn,                 \* "none", or the function called
    args,               \* its arguments, by parameter name
    ret                 \* <<>>, or <<its return value>>

disk == <<progress_file, batch_files, consolidated_file, dir_listing>>
proc == <<run, pc, start_page, total_pages, jobs_collected,
          current_page, current_batch, batch_number>>
page == <<job_listings, enhanced_listings, task, results, semaphore,
          completed, detail_requests>>
hist == <<requested, bootstrapped, loaded, exit_cause>>
extract == <<detail_pc, job_offer_data, job_listing, job_before>>
call == <<fn, args, ret>>
vars == <<disk, proc, page, hist, extract, call>>

\* ------------------------------------------------------------- records
\* Strings are sequences of characters.  The offer at position i of page
\* p has a title of its own.
OfferTitle(p, i) == <<"t", ToString(p), ToString(i)>>

\* extract_job_listings: a record of page p, position i, enrichment empty.
NewListing(p, i) ==
    [id |-> <<p, i>>, title |-> OfferTitle(p, i), company |-> <<"c">>,
     location |-> <<"l">>, enriched |-> FALSE]

Listings(p, n) == [i \in 1..n |-> NewListing(p, i)]

\* extract_job_details merges the detail page into the record.
Enrich(job) == [job EXCEPT !.enriched = TRUE]

\* A task that has not returned has no result; Python truthiness of a
\* result (a job dict is never empty).
NoJob == [id |-> <<>>, enriched |-> FALSE]

Truthy(job) == job # NoJob

\* mutant: the count and the page total are written to each other's key
ProgressRecordSwapped(cp, tp, jc) ==
    [current_page |-> cp, total_pages |-> jc, jobs_collected |-> tp]

\* ------------------------------------------------------- progress store
\* save_progress: the JSON object written to PROGRESS_FILE.
ProgressRecord(cp, tp, jc) ==
    [current_page |-> cp, total_pages |-> tp, jobs_collected |-> jc]

\* A progress file that json.load or progress.get cannot read (truncated,
\* not JSON, not a JSON object).
Corrupt == [unreadable |-> TRUE]

\* The progress file exists and holds a JSON object.
Readable(file) == file # <<>> /\ file[1] # Corrupt

\* mutant: a file that cannot be read is taken for an object without keys,
\* which progress.get reads as page 1 with no total
LoadedProgressKeyDefaults(file) ==
    IF file = <<>> THEN ProgressRecord(None, None, 0)
    ELSE IF file[1] = Corrupt THEN ProgressRecord(1, None, 0)
    ELSE file[1]

\* mutant: a stored object without a page count is taken for no progress
LoadedProgressNeedsTotal(file) ==
    IF Readable(file) /\ file[1].total_pages # None THEN file[1]
    ELSE ProgressRecord(None, None, 0)

\* load_progress: (current_page, total_pages, jobs_collected) of the stored
\* object, or (None, None, 0) when there is no file or reading it raises.
LoadedProgress(file) ==
    IF Readable(file) THEN file[1] ELSE ProgressRecord(None, None, 0)

\* mutant: every start fetches the first page
NeedsBootstrapAlways(sp) == TRUE

\* main: "if not start_page" (None and 0 are both falsy).
NeedsBootstrap(sp) == sp = None \/ sp = 0

\* ----------------------------------------------------------- batches
\* save_batch: writes nothing for an empty list, else (over)writes
\* jobs_batch_<batch_number>.json.
SaveBatch(files, jobs, n) ==
    IF jobs = <<>> THEN files
    ELSE [k \in DOMAIN files \cup {n} |->
            IF k = n THEN [run |-> run, jobs |-> jobs] ELSE files[k]]

\* Mutant: the threshold test is strict.
BatchIsOverfull(batch) == Len(batch) > BATCH_SIZE

\* main: "if len(current_batch) >= BATCH_SIZE".
BatchIsFull(batch) == Len(batch) >= BATCH_SIZE

\* main: batch_number = 1 on entry to the page loop.
FirstBatchNumber(files) == 1

\* ------------------------------------------------------- consolidation
\* The dedup key of consolidate_data:
\* f"{job['title']}_{job['company']}_{job['location']}".
Key(job) == job.title \o <<"_">> \o job.company \o <<"_">> \o job.location

\* os.listdir(batch_dir): the batch files in an order the file system
\* chooses.
Listdir(files) ==
    {o \in [1..Cardinality(DOMAIN files) -> DOMAIN files] :
        \A a, b \in DOMAIN o : a # b => o[a] # o[b]}

\* Two listings of a directory with the same entries return them in the
\* same order (overwriting a file does not move its entry).
StableListdir(files, last) ==
    IF {last[i] : i \in DOMAIN last} = DOMAIN files THEN {last}
    ELSE Listdir(files)

\* A batch file that cannot be opened or whose content json.load rejects;
\* a readable one is [run, jobs].
Unreadable == [run |-> 0, unreadable |-> TRUE]

\* open(...) and json.load(f) go through for the file.
BatchReadable(file) == "jobs" \in DOMAIN file

RECURSIVE FlattenUntilUnreadable(_, _)
\* Mutant: the first file that cannot be read ends the reading.
FlattenUntilUnreadable(files, names) ==
    IF names = <<>> THEN <<>>
    ELSE IF BatchReadable(files[Head(names)])
    THEN files[Head(names)].jobs \o FlattenUntilUnreadable(files, Tail(names))
    ELSE <<>>

RECURSIVE Flatten(_, _)
\* all_jobs.extend(batch_jobs) for each file name in turn; a file whose
\* open or json.load raises is logged and left out.
Flatten(files, names) ==
    IF names = <<>> THEN <<>>
    ELSE (IF BatchReadable(files[Head(names)])
          THEN files[Head(names)].jobs ELSE <<>>)
         \o Flatten(files, Tail(names))

\* unique_jobs[key] = job: a key keeps the position of its first
\* occurrence and the value of its last.
DedupPut(acc, job) ==
    IF \E i \in DOMAIN acc : Key(acc[i]) = Key(job)
    THEN [i \in DOMAIN acc |-> IF Key(acc[i]) = Key(job) THEN job ELSE acc[i]]
    ELSE Append(acc, job)

RECURSIVE Dedup(_, _)
\* for job in all_jobs: unique_jobs[key] = job. (The dict after a job and
\* the jobs left are bound as values, so that each is computed once.)
Dedup(acc, jobs) ==
    IF jobs = <<>> THEN acc
    ELSE CHOOSE r \in {Dedup(a, t) : a \in {DedupPut(acc, Head(jobs))},
                                     t \in {Tail(jobs)}} : TRUE

\* consolidate_data, lines 657-672, for one enumeration of the directory.
ConsolidateData(files, names) == Dedup(<<>>, Flatten(files, names))

\* mutant: the consolidated output is written into the batch directory
BatchDirWithOutput(files, out) ==
    [k \in DOMAIN files \cup {0} |->
        IF k = 0 THEN [run |-> run, jobs |-> out] ELSE files[k]]

\* consolidate_data opens the batch files for reading only and writes
\* DATA_DIR/all_jobs_consolidated.json, which is not in DATA_DIR/batches:
\* the batch directory after the call.
BatchDirAfter(files, out) == files

\* ------------------------------------------------- detail orchestrator
Statuses == {"200", "429", "other", "exception"}

\* fetch_one_job is inside "async with semaphore" from the acquire to its
\* return.
HoldsPermit(st) == st \in {"delay", "request", "cooldown"}

InFlight == {i \in DOMAIN task : HoldsPermit(task[i])}

\* Mutant: the gate lets every task in.
CanAcquireAlways(sem) == TRUE

\* Mutant: the gate lets no task in.
CanAcquireNever(sem) == FALSE

\* asyncio.Semaphore.acquire proceeds only while a permit is free.
CanAcquire(sem) == sem > 0

\* waiters are woken first come, first served; tasks were created in
\* listing order.
NextWaiter(i) == task[i] = "waiting" /\ \A k \in 1..(i - 1) : task[k] # "waiting"

\* The state of fetch_one_job after the response: a 429 sleeps the
\* cooldown, everything else returns.
AfterResponse(status) == IF status = "429" THEN "cooldown" ELSE "done"

\* Mutant: the request is sent again after the cooldown.
AfterCooldownRetry == "request"

\* After the 429 cooldown fetch_one_job returns the job.
AfterCooldown == "done"

\* Mutant: a failed fetch returns None instead of the job.
JobAfterDropsFailed(job, status) == IF status = "200" THEN Enrich(job) ELSE NoJob

\* The return value of fetch_one_job for a response.
JobAfter(job, status) == IF status = "200" THEN Enrich(job) ELSE job

\* Mutant: the results are collected as the tasks complete.
GatherCompletionOrder(n, done) == done

\* results = await asyncio.gather(*tasks): the results in task order.
GatherOrder(n, done) == [i \in 1..n |-> i]

\* enhanced_listings = [job for job in results if job]
FilterResults(res) == SelectSeq(res, Truthy)

\* Mutant: the tasks are left running.
KeepTasks(t) == t

\* asyncio.run on KeyboardInterrupt: the tasks that have not returned are
\* cancelled.
CancelTasks(t) == [i \in DOMAIN t |-> IF t[i] = "done" THEN "done" ELSE "cancelled"]

PageIdle ==
    /\ job_listings' = <<>>
    /\ enhanced_listings' = <<>>
    /\ task' = <<>>
    /\ results' = <<>>
    /\ semaphore' = max_concurrent
    /\ completed' = <<>>
    /\ detail_requests' = <<>>

\* ---------------------------------------------------------------- Init
\* The progress files a run can find when no batch has been written yet:
\* none; one left by a run that was stopped before page p of t after
\* collecting nothing (p = t + 1: that run completed); one that names a
\* page but carries total_pages = null (load_progress reads it with
\* progress.get("total_pages", None)); one that cannot be read.
InitialProgress(P) ==
    {<<>>, <<Corrupt>>, <<ProgressRecord(1, None, 0)>>}
    \cup UNION {{<<ProgressRecord(p, t, 0)>> : p \in 2..(t + 1)} : t \in 1..P}

\* No call of extract_job_details is looked into.
NoDetailCall ==
    /\ detail_pc = "idle"
    /\ job_offer_data = <<>>
    /\ job_listing = <<>>
    /\ job_before = <<>>

\* No function call is looked into.
NoCall ==
    /\ fn = "none"
    /\ args = <<>>
    /\ ret = <<>>

\* The process when the program starts.
InitProcess ==
    /\ run = 1
    /\ pc = "start"
    /\ start_page = None
    /\ total_pages = None
    /\ jobs_collected = 0
    /\ current_page = 0
    /\ current_batch = <<>>
    /\ batch_number = 1
    /\ job_listings = <<>>
    /\ enhanced_listings = <<>>
    /\ task = <<>>
    /\ results = <<>>
    /\ semaphore = max_concurrent
    /\ completed = <<>>
    /\ detail_requests = <<>>
    /\ requested = <<>>
    /\ bootstrapped = FALSE
    /\ loaded = ProgressRecord(None, None, 0)
    /\ exit_cause = "none"

InitWith(files) ==
    /\ progress_file \in files
    /\ batch_files = <<>>
    /\ consolidated_file = <<>>
    /\ dir_listing = <<>>
    /\ InitProcess
    /\ NoDetailCall
    /\ NoCall

\* ------------------------------------------------------------ main: start
\* Mutant: the loop starts over from page 1.
FirstPageOne(sp) == 1

\* for current_page in range(start_page, total_pages + 1): the first page.
FirstPage(sp) == sp

\* main, lines 723-730: batch setup and entry into the try block.
EnterLoop(sp) ==
    /\ current_batch' = <<>>
    /\ batch_number' = FirstBatchNumber(batch_files)
    /\ current_page' = FirstPage(sp)
    /\ pc' = "loop"

\* main, lines 685-687 with load_progress.
LoadProgress ==
    /\ pc = "start"
    /\ LET lp == LoadedProgress(progress_file) IN
        /\ start_page' = lp.current_page
        /\ total_pages' = lp.total_pages
        /\ jobs_collected' = lp.jobs_collected
        /\ loaded' = lp
        /\ IF NeedsBootstrap(lp.current_page)
           THEN /\ pc' = "bootstrap"
                /\ bootstrapped' = TRUE
                /\ UNCHANGED <<current_batch, batch_number, current_page>>
           ELSE /\ EnterLoop(lp.current_page)
                /\ UNCHANGED bootstrapped
    /\ UNCHANGED <<extract, call, disk, run, page, requested, exit_cause>>

\* main, lines 695-697, 706-708, 719-721: the first page cannot be read.
BootstrapFail ==
    /\ pc = "bootstrap"
    /\ pc' = "done"
    /\ exit_cause' = "init_failure"
    /\ UNCHANGED <<extract, call, disk, run, start_page, total_pages, jobs_collected,
                   current_page, current_batch, batch_number, page,
                   requested, bootstrapped, loaded>>

\* main, lines 714-718: get_total_pages gives the page count.
BootstrapOk(tp) ==
    /\ pc = "bootstrap"
    /\ total_pages' = tp
    /\ start_page' = 1
    /\ jobs_collected' = 0
    /\ EnterLoop(1)
    /\ UNCHANGED <<extract, call, disk, run, page, requested, bootstrapped, loaded, exit_cause>>

\* ------------------------------------------------------- main: page loop
\* range(start_page, total_pages + 1) with total_pages = None: TypeError,
\* caught by "except Exception".
LoopError ==
    /\ pc = "loop"
    /\ total_pages = None
    /\ pc' = "finally"
    /\ exit_cause' = "error"
    /\ UNCHANGED <<extract, call, disk, run, start_page, total_pages, jobs_collected,
                   current_page, current_batch, batch_number, page,
                   requested, bootstrapped, loaded>>

\* The range is exhausted.
LoopExit ==
    /\ pc = "loop"
    /\ total_pages # None
    /\ current_page > total_pages
    /\ pc' = "finally"
    /\ exit_cause' = "complete"
    /\ UNCHANGED <<extract, call, disk, run, start_page, total_pages, jobs_collected,
                   current_page, current_batch, batch_number, page,
                   requested, bootstrapped, loaded>>

\* scrape_page: requests.get(url) for the current page.
RequestPage ==
    /\ pc = "loop"
    /\ total_pages # None
    /\ current_page <= total_pages
    /\ requested' = Append(requested, current_page)
    /\ pc' = "listing"
    /\ UNCHANGED <<extract, call, disk, run, start_page, total_pages, jobs_collected,
                   current_page, current_batch, batch_number, page,
                   bootstrapped, loaded, exit_cause>>

\* scrape_page returns []: non-200, exception, no data blob, no listings.
ListingFail ==
    /\ pc = "listing"
    /\ PageIdle
    /\ pc' = "page_end"
    /\ UNCHANGED <<extract, call, disk, run, start_page, total_pages, jobs_collected,
                   current_page, current_batch, batch_number, hist>>

\* scrape_page extracted n listings and calls fetch_job_details: asyncio.run
\* starts the tasks, or fails and the sequential fallback runs.
ListingOk(n, async_ok) ==
    /\ pc = "listing"
    /\ job_listings' = Listings(current_page, n)
    /\ enhanced_listings' = <<>>
    /\ task' = IF async_ok THEN [i \in 1..n |-> "waiting"] ELSE <<>>
    /\ results' = IF async_ok THEN [i \in 1..n |-> NoJob] ELSE <<>>
    /\ semaphore' = max_concurrent
    /\ completed' = <<>>
    /\ detail_requests' = [i \in 1..n |-> 0]
    /\ pc' = IF async_ok THEN "async" ELSE "sync"
    /\ UNCHANGED <<extract, call, disk, run, start_page, total_pages, jobs_collected,
                   current_page, current_batch, batch_number, hist>>

\* ------------------------------------- fetch_job_details_async (asyncio)
\* Task i moves to state st: entering "request" issues session.get, entering
\* "done" is the return of fetch_one_job (the semaphore is released on
\* leaving "async with").
Move(i, st, job) ==
    /\ task' = [task EXCEPT ![i] = st]
    /\ detail_requests' =
         IF st = "request"
         THEN [detail_requests EXCEPT ![i] = @ + 1] ELSE detail_requests
    /\ results' = IF st = "done" THEN [results EXCEPT ![i] = job] ELSE results
    /\ completed' = IF st = "done" THEN Append(completed, i) ELSE completed
    /\ semaphore' = IF st = "done" THEN semaphore + 1 ELSE semaphore

\* async with semaphore
Acquire(i) ==
    /\ pc = "async"
    /\ NextWaiter(i)
    /\ CanAcquire(semaphore)
    /\ task' = [task EXCEPT ![i] = "delay"]
    /\ semaphore' = semaphore - 1
    /\ UNCHANGED <<extract, call, disk, proc, hist, job_listings, enhanced_listings,
                   results, completed, detail_requests>>

\* await asyncio.sleep(delay) is over: session.get(job['url'])
SendRequest(i) ==
    /\ pc = "async"
    /\ task[i] = "delay"
    /\ Move(i, "request", job_listings[i])
    /\ UNCHANGED <<extract, call, disk, proc, hist, job_listings, enhanced_listings>>

\* The response (or the exception) of the detail request.
Response(i, status) ==
    /\ pc = "async"
    /\ task[i] = "request"
    /\ Move(i, AfterResponse(status), JobAfter(job_listings[i], status))
    /\ UNCHANGED <<extract, call, disk, proc, hist, job_listings, enhanced_listings>>

\* The 429 cooldown sleep is over.
CooldownDone(i) ==
    /\ pc = "async"
    /\ task[i] = "cooldown"
    /\ Move(i, AfterCooldown, job_listings[i])
    /\ UNCHANGED <<extract, call, disk, proc, hist, job_listings, enhanced_listings>>

\* asyncio.gather returns once every task has returned; lines 467-473.
Gather ==
    /\ pc = "async"
    /\ \A i \in DOMAIN task : task[i] = "done"
    /\ LET n == Len(job_listings)
           order == GatherOrder(n, completed)
       IN  enhanced_listings' = FilterResults([k \in 1..n |-> results[order[k]]])
    /\ pc' = "page_end"
    /\ UNCHANGED <<extract, call, disk, run, start_page, total_pages, jobs_collected,
                   current_page, current_batch, batch_number, hist,
                   job_listings, task, results, semaphore, completed,
                   detail_requests>>

\* -------------------------------------- fetch_job_details_sync (fallback)
\* One iteration of "for job in job_listings": delay, session.get, the 429
\* cooldown if any, enhanced_listings.append(job).
SyncFetchOne(status) ==
    /\ pc = "sync"
    /\ Len(enhanced_listings) < Len(job_listings)
    /\ LET i == Len(enhanced_listings) + 1 IN
        /\ detail_requests' = [detail_requests EXCEPT ![i] = @ + 1]
        /\ enhanced_listings' =
             Append(enhanced_listings, JobAfter(job_listings[i], status))
    /\ UNCHANGED <<extract, call, disk, proc, hist, job_listings, task, results, semaphore,
                   completed>>

SyncReturn ==
    /\ pc = "sync"
    /\ Len(enhanced_listings) = Len(job_listings)
    /\ pc' = "page_end"
    /\ UNCHANGED <<extract, call, disk, run, start_page, total_pages, jobs_collected,
                   current_page, current_batch, batch_number, hist, page>>

\* Mutant: the cursor is saved without advancing.
CursorSame(p) == p

\* save_progress(current_page + 1, ...): the page the cursor names next.
CursorAfter(p) == p + 1

\* mutant: the loop body consolidates after every page
ConsolidatedEveryPage(old, files) ==
    IF DOMAIN files = {} THEN old
    ELSE <<[run |-> run,
            jobs |-> ConsolidateData(files, CHOOSE o \in Listdir(files) : TRUE)]>>

\* The body of the page loop does not call consolidate_data: the
\* consolidated output after a page is the one before it.
ConsolidatedAfterPage(old, files) == old

\* mutant: a failed save ends the page loop
AfterSaveFatal(save_ok) == IF save_ok THEN "delay" ELSE "finally"

\* save_progress catches its own exception and returns False; main does
\* not look at the returned value and goes on to the delay.
AfterSaveProgress(save_ok) == "delay"

\* ------------------------------------------------ main, lines 736-750
\* The page's records are accumulated, a full batch is flushed, and the
\* cursor is persisted (save_progress may fail: it logs and returns False).
\* Mutant: the counter counts pages.
CountPages(count, got) == count + 1

\* jobs_collected += len(job_listings)
CountAfter(count, got) == count + Len(got)

PageEnd(save_ok) ==
    /\ pc = "page_end"
    /\ LET got == enhanced_listings
           batch == current_batch \o got
           flush == got # <<>> /\ BatchIsFull(batch)
           jc == CountAfter(jobs_collected, got)
       IN  /\ jobs_collected' = jc
           /\ current_batch' = IF flush THEN <<>> ELSE batch
           /\ batch_number' = IF flush THEN batch_number + 1 ELSE batch_number
           /\ batch_files' =
                IF flush THEN SaveBatch(batch_files, batch, batch_number)
                ELSE batch_files
           /\ progress_file' =
                IF save_ok
                THEN <<ProgressRecord(CursorAfter(current_page), total_pages, jc)>>
                ELSE progress_file
    /\ PageIdle
    /\ consolidated_file' = ConsolidatedAfterPage(consolidated_file, batch_files')
    /\ pc' = AfterSaveProgress(save_ok)
    /\ UNCHANGED <<extract, call, dir_listing, run, start_page, total_pages, current_page,
                   hist>>

\* mutant: the loop stays on the page it has just processed
NextPageSame(p) == p

\* add_rate_limiting_delay returns; the for loop takes the next page.
NextPage(p) == p + 1

RateLimitDelay ==
    /\ pc = "delay"
    /\ current_page' = NextPage(current_page)
    /\ pc' = "loop"
    /\ UNCHANGED <<extract, call, disk, run, start_page, total_pages, jobs_collected,
                   current_batch, batch_number, page, hist>>

\* ------------------------------------------------------ KeyboardInterrupt
Blocking == {"listing", "async", "sync", "delay"}

\* Mutant: the interrupt ends the process without the finally block.
InterruptSkipsFinally == "done"

\* Where a KeyboardInterrupt raised inside the try block lands.
InterruptTarget == "finally"

\* Ctrl-C while the page loop is blocked: nothing below main catches it
\* ("except Exception" does not), asyncio.run cancels the running tasks.
Interrupt ==
    /\ pc \in Blocking
    /\ pc' = InterruptTarget
    /\ exit_cause' = "interrupt"
    /\ task' = CancelTasks(task)
    /\ semaphore' = semaphore + Cardinality({i \in DOMAIN task :
                        HoldsPermit(task[i]) /\ ~HoldsPermit(task'[i])})
    /\ UNCHANGED <<extract, call, disk, run, start_page, total_pages, jobs_collected,
                   current_page, current_batch, batch_number, job_listings,
                   enhanced_listings, results, completed, detail_requests,
                   requested, bootstrapped, loaded>>

\* Ctrl-C during the bootstrap request: outside the try block, uncaught.
InterruptBootstrap ==
    /\ pc = "bootstrap"
    /\ pc' = "done"
    /\ exit_cause' = "killed"
    /\ UNCHANGED <<extract, call, disk, run, start_page, total_pages, jobs_collected,
                   current_page, current_batch, batch_number, page,
                   requested, bootstrapped, loaded>>

\* ------------------------------------------------ main, lines 759-767
\* if current_batch: save_batch(current_batch, batch_number)
\* Mutant: the accumulator is not written on exit.
FinalFlushNothing(files, batch, n) == files

FinalFlush(files, batch, n) == SaveBatch(files, batch, n)

\* consolidate_data returns at once when there is no batches directory
\* (save_batch creates it with the first batch file).
Finally ==
    /\ pc = "finally"
    /\ LET flushed == FinalFlush(batch_files, current_batch, batch_number) IN
         IF DOMAIN flushed = {}
         THEN /\ batch_files' = flushed
              /\ UNCHANGED <<consolidated_file, dir_listing>>
         ELSE \E names \in StableListdir(flushed, dir_listing) :
                LET out == ConsolidateData(flushed, names) IN
                  /\ dir_listing' = names
                  /\ consolidated_file' = <<[run |-> run, jobs |-> out]>>
                  /\ batch_files' = BatchDirAfter(flushed, out)
    /\ pc' = "done"
    /\ UNCHANGED <<extract, call, progress_file, run, start_page, total_pages,
                   jobs_collected, current_page, current_batch,
                   batch_number, page, hist>>

\* The program is started again on the same disk.
Restart ==
    /\ pc = "done"
    /\ run < MaxRuns
    /\ run' = run + 1
    /\ pc' = "start"
    /\ start_page' = None
    /\ total_pages' = None
    /\ jobs_collected' = 0
    /\ current_page' = 0
    /\ current_batch' = <<>>
    /\ batch_number' = 1
    /\ PageIdle
    /\ requested' = <<>>
    /\ bootstrapped' = FALSE
    /\ loaded' = ProgressRecord(None, None, 0)
    /\ exit_cause' = "none"
    /\ UNCHANGED <<extract, call, disk>>

\* One run of the program, with total_pages up to P and up to J offers on
\* a page.
ProgramSteps(P, J) ==
    \/ LoadProgress
    \/ BootstrapFail
    \/ \E tp \in 0..P : BootstrapOk(tp)
    \/ LoopError
    \/ LoopExit
    \/ RequestPage
    \/ ListingFail
    \/ \E n \in 1..J, async_ok \in BOOLEAN : ListingOk(n, async_ok)
    \/ \E i \in DOMAIN task : Acquire(i)
    \/ \E i \in DOMAIN task : SendRequest(i)
    \/ \E i \in DOMAIN task, status \in Statuses : Response(i, status)
    \/ \E i \in DOMAIN task : CooldownDone(i)
    \/ Gather
    \/ \E status \in Statuses : SyncFetchOne(status)
    \/ SyncReturn
    \/ \E save_ok \in BOOLEAN : PageEnd(save_ok)
    \/ RateLimitDelay
    \/ Finally

\* The program's steps and the interrupts of its user.
Steps(P, J) ==
    \/ ProgramSteps(P, J)
    \/ Interrupt
    \/ InterruptBootstrap

Init == InitWith({<<>>, <<ProgressRecord(1, None, 0)>>})

Next == Steps(RunPages, RunJobs) \/ Restart

\* Runs of the program on one disk, the first on an empty one.
Spec == Init /\ [][Next]_vars

InitFetch == InitWith(InitialProgress(FetchPages))

NextFetch == Steps(FetchPages, FetchJobs)

\* One run over at most FetchPages pages of up to FetchJobs offers.
SpecFetch == InitFetch /\ [][NextFetch]_vars

InitRun == InitWith(InitialProgress(RunPages))

NextRun == Steps(RunPages, RunJobs)

\* One run over at most RunPages pages of up to RunJobs offers.
SpecRun == InitRun /\ [][NextRun]_vars

\* Every request, every delay and every disk operation of the program
\* returns or fails in the end: a step of the program that stays possible
\* is taken. Nothing is assumed about interrupts.
InitLive == InitWith(InitialProgress(FetchPages))

NextLive == Steps(FetchPages, RunJobs)

SpecLive ==
    InitLive /\ [][NextLive]_vars /\ WF_vars(ProgramSteps(FetchPages, RunJobs))

\* Progress files of a run that had collected records when it was killed
\* before it wrote a batch file: the cursor is past page 1 and the count is
\* 1, or RunJobs for each page behind the cursor.
CountedProgress ==
    UNION {UNION {{<<ProgressRecord(p, t, j)>> :
                      j \in {1, RunJobs * (p - 1)}} :
                  p \in 2..(t + 1)} :
           t \in 1..RunPages}

InitResume == InitWith(InitialProgress(RunPages) \cup CountedProgress)

\* One run, started also from progress files with a count above 0.
SpecResume == InitResume /\ [][NextRun]_vars

\* ------------------------------------------------- a batch directory
\* (title, company) of the offers earlier runs left in the batch files;
\* any string may hold an underscore.
Offers ==
    {<<(<<"a">>), (<<"c">>)>>,
     <<(<<"a">>), (<<"b", "_", "c">>)>>,
     <<(<<"a", "_", "b">>), (<<"c">>)>>}

DirRecords ==
    {[id |-> <<0, 0>>, title |-> o[1], company |-> o[2],
      location |-> <<"l">>, enriched |-> e] : o \in Offers, e \in BOOLEAN}

\* The ways to cut a list of records into one or two non-empty files
\* (save_batch writes no empty file).
Splits(s) == {<<s>>} \cup {<<SubSeq(s, 1, c), SubSeq(s, c + 1, Len(s))>> :
                             c \in 1..(Len(s) - 1)}

\* jobs_batch_1.json and perhaps jobs_batch_2.json, written by earlier
\* runs (run 0).
BatchDirs ==
    UNION {{[n \in DOMAIN parts |-> [run |-> 0, jobs |-> parts[n]]] :
               parts \in Splits(s)} :
           s \in UNION {[1..n -> DirRecords] : n \in 1..MaxDirJobs}}

\* A directory with a file that cannot be read: alone, or next to one
\* readable file.
UnreadableDirs ==
    {<<Unreadable>>}
    \cup {Append(d, Unreadable) : d \in {b \in BatchDirs : Len(b) = 1}}

\* The program is started on a disk where an earlier run went through all
\* pages: the loop is empty and the run goes to the finally block.
InitConsolidate ==
    /\ progress_file = <<ProgressRecord(RunPages + 1, RunPages, 0)>>
    /\ batch_files \in BatchDirs \cup UnreadableDirs
    /\ consolidated_file = <<>>
    /\ dir_listing = <<>>
    /\ InitProcess
    /\ NoDetailCall
    /\ NoCall

NextConsolidate == LoadProgress \/ LoopExit \/ Finally \/ Restart

\* Consolidation of a batch directory, again on every start.
SpecConsolidate == InitConsolidate /\ [][NextConsolidate]_vars

\* ------------------------------------------------- extract_job_details
\* JSON null where the page should carry a list.
Null == <<"null">>

\* mutant: every name is appended
AppendAll(list, names) == list \o names

RECURSIVE AppendNew(_, _)
\* "if name not in list: list.append(name)" for each name in turn.
AppendNew(list, names) ==
    IF names = <<>> THEN list
    ELSE AppendNew(IF \E i \in DOMAIN list : list[i] = Head(names)
                   THEN list ELSE Append(list, Head(names)),
                   Tail(names))

\* tech_items of a 'technologies-expected' subsection: the names of
\* customItems, then those of items.
TechItems(customItems, items) == AppendNew(AppendNew(<<>>, customItems), items)

\* One iteration of "for section in sections": the record after it and
\* whether it raised.  Iterating over null and list.extend(null) raise
\* TypeError before the record is touched.
MergeSection(job, section) ==
    CASE section.sectionType = "technologies" ->
           IF section.items = Null THEN [job |-> job, raised |-> TRUE]
           ELSE [job |-> [job EXCEPT !.technologies =
                            AppendNew(@, TechItems(section.customItems,
                                                   section.items))],
                 raised |-> FALSE]
      [] section.sectionType = "requirements" ->
           IF section.bullets = Null THEN [job |-> job, raised |-> TRUE]
           ELSE [job |-> [job EXCEPT !.requirements = @ \o section.bullets],
                 raised |-> FALSE]
      [] section.sectionType = "responsibilities" ->
           [job |-> [job EXCEPT !.responsibilities = section.bullets],
            raised |-> FALSE]
      [] section.sectionType = "offered" ->
           [job |-> [job EXCEPT !.offered = section.bullets],
            raised |-> FALSE]
      [] section.sectionType = "benefits" ->
           [job |-> [job EXCEPT !.benefits =
                        section.customItems \o section.items],
            raised |-> FALSE]

RECURSIVE PrimaryPass(_, _)
\* The loop over 'sections', which an exception leaves at once.
PrimaryPass(job, sections) ==
    IF sections = <<>> THEN [job |-> job, raised |-> FALSE]
    ELSE LET r == MergeSection(job, Head(sections)) IN
           IF r.raised THEN r ELSE PrimaryPass(r.job, Tail(sections))

\* The field a text section is the backup for.
BackupField(sectionType) ==
    CASE sectionType = "technologies-expected" -> "technologies"
      [] sectionType = "requirements-expected" -> "requirements"
      [] OTHER -> sectionType

\* mutant: the text section is written whatever the field holds
BackupAlways(job, section) ==
    [job EXCEPT ![BackupField(section.sectionType)] = section.textElements]

\* One iteration of "for section in job_offer_data['textSections']": the
\* text is taken only "and not job_listing[field]".
BackupSection(job, section) ==
    IF job[BackupField(section.sectionType)] = <<>>
    THEN [job EXCEPT ![BackupField(section.sectionType)] = section.textElements]
    ELSE job

RECURSIVE BackupPass(_, _)
BackupPass(job, textSections) ==
    IF textSections = <<>> THEN job
    ELSE BackupPass(BackupSection(job, Head(textSections)), Tail(textSections))

\* The dict extract_job_details returns (the one passed in, merged into in
\* place): unchanged when the page carries no jobOffer data, as the
\* exception left it when a section raised, else after both passes.
ExtractJobDetails(data, job) ==
    IF ~data.found THEN job
    ELSE LET p == PrimaryPass(job, data.sections) IN
           IF p.raised THEN p.job ELSE BackupPass(p.job, data.textSections)

\* ------------------------------------------------------ a detail page
\* The entries a page's 'sections' list is drawn from.
PageSections ==
    {[sectionType |-> "technologies", customItems |-> c, items |-> i] :
        c \in {<<>>, <<"Go">>}, i \in {<<"SQL", "Go">>, Null}}
    \cup {[sectionType |-> "requirements", bullets |-> b] :
             b \in {<<>>, <<"r">>, Null}}
    \cup {[sectionType |-> t, bullets |-> b] :
             t \in {"responsibilities", "offered"}, b \in {<<>>, <<"b">>}}
    \cup {[sectionType |-> "benefits", customItems |-> <<>>, items |-> i] :
             i \in {<<>>, <<"b">>}}

\* The entries of 'textSections', and the lists of at most two of them.
PageTextSections ==
    {[sectionType |-> t, textElements |-> <<"Rust">>] :
        t \in {"technologies-expected", "requirements-expected",
               "responsibilities", "offered", "benefits"}}

TextSectionLists ==
    {<<>>} \cup {<<a>> : a \in PageTextSections}
           \cup {<<a, b>> : a, b \in PageTextSections}

\* A detail page without jobOffer data (no __NEXT_DATA__, no pageProps,
\* no jobOffer query), or one with its sections and text sections.
DetailPages ==
    {[found |-> FALSE, sections |-> <<>>, textSections |-> <<>>]}
    \cup {[found |-> TRUE, sections |-> ss, textSections |-> ts] :
             ss \in UNION {[1..n -> PageSections] : n \in 0..MaxSections},
             ts \in TextSectionLists}

\* A record as extract_job_listings made it: the detail fields empty, the
\* technologies as the listing page gave them.
ListingRecords ==
    {[technologies |-> t, requirements |-> <<>>, responsibilities |-> <<>>,
      offered |-> <<>>, benefits |-> <<>>] : t \in {<<>>, <<"Python", "SQL">>}}

\* extract_job_details is called on a detail page and a listing record.
InitExtract ==
    /\ detail_pc = "called"
    /\ job_offer_data \in DetailPages
    /\ job_listing \in ListingRecords
    /\ job_before = job_listing
    /\ progress_file = <<>>
    /\ batch_files = <<>>
    /\ consolidated_file = <<>>
    /\ dir_listing = <<>>
    /\ InitProcess
    /\ NoCall

\* The call returns.
ExtractReturn ==
    /\ detail_pc = "called"
    /\ job_listing' = ExtractJobDetails(job_offer_data, job_listing)
    /\ detail_pc' = "returned"
    /\ UNCHANGED <<job_offer_data, job_before, disk, proc, page, hist, call>>

NextExtract == ExtractReturn

\* One call of extract_job_details.
SpecExtract == InitExtract /\ [][NextExtract]_vars

\* ------------------------------------------------------ get_total_pages
RESULTS_PER_PAGE == 50

\* What evaluating a path of the page data can raise.
KeyError == "KeyError"
TypeError == "TypeError"
IndexError == "IndexError"

\* The outcome of one lookup level: it raises, it returns a value from the
\* function, or it completes without either and control falls out of its
\* try statement.
Raises(e) == [raises |-> e]
Returns(v) == [returns |-> v]
Falls == [falls |-> TRUE]
Raised(o) == "raises" \in DOMAIN o
HasReturned(o) == "returns" \in DOMAIN o

\* Mutant: the page count is rounded down.
TotalPagesFloor(total_results) == total_results \div RESULTS_PER_PAGE

\* (total_results + RESULTS_PER_PAGE - 1) // RESULTS_PER_PAGE
TotalPagesOf(total_results) ==
    (total_results + RESULTS_PER_PAGE - 1) \div RESULTS_PER_PAGE

\* The page data as get_total_pages reads it:
\*   pagination     what ...['queries'][0]['state']['data']['pagination']
\*                  ['totalResults'] comes to: an exception, or the number;
\*   offer_list     what ...['initialState']['offers']['offer_list'] comes
\*                  to: an exception, or the dict, whose 'pagination' entry,
\*                  when it has one, is an exception or [total_results];
\*   groupedOffers  what ...['queries'][0]['state']['data']['groupedOffers']
\*                  comes to: an exception, or the list.
\* An empty queries list raises IndexError on both paths through it.
PrimaryPath(data) ==
    IF Raised(data.pagination) THEN data.pagination
    ELSE Returns(<<TotalPagesOf(data.pagination.totalResults),
                   data.pagination.totalResults>>)

AlternativePath1(data) ==
    LET offer_list == data.offer_list
    IN  IF Raised(offer_list) THEN offer_list
        ELSE IF "pagination" \in DOMAIN offer_list
        THEN IF Raised(offer_list.pagination) THEN offer_list.pagination
             ELSE Returns(<<TotalPagesOf(offer_list.pagination.total_results),
                            offer_list.pagination.total_results>>)
        ELSE Falls

AlternativePath2(data) ==
    LET offers == data.groupedOffers
    IN  IF Raised(offers) THEN offers
        ELSE IF offers.list # <<>>
        THEN Returns(<<900, Len(offers.list) * 900>>)
        ELSE Falls

\* Mutant: the inner handlers catch every exception.
CaughtAny(o) == Raised(o)

\* except (KeyError, TypeError)
Caught(o) == Raised(o) /\ o.raises \in {KeyError, TypeError}

\* The value returned with the levels entered and the return statement
\* that was executed; "unexpected" is the one of the outer handler.
PagesResult(value, tried, site) ==
    [total_pages |-> value[1], total_results |-> value[2],
     tried |-> tried, site |-> site]

\* One level and what follows it: its return, the outer handler for an
\* exception its own handler does not catch, or the rest of the function.
Level(o, tried, rest) ==
    IF HasReturned(o) THEN PagesResult(o.returns, tried, tried[Len(tried)])
    ELSE IF Raised(o) /\ ~Caught(o)
    THEN PagesResult(<<900, 18000>>, tried, "unexpected")
    ELSE rest

GetTotalPages(data) ==
    Level(PrimaryPath(data), <<"primary">>,
    Level(AlternativePath1(data), <<"primary", "secondary">>,
    Level(AlternativePath2(data), <<"primary", "secondary", "count">>,
    PagesResult(<<900, 18000>>,
                <<"primary", "secondary", "count", "default">>, "default"))))

\* Result counts around the multiples of the page size.
TotalResults == {0, 1, 49, 50, 51, 100, 449, 450, 451}

PageData ==
    [pagination :
        {Raises(KeyError), Raises(TypeError), Raises(IndexError)}
        \cup {[totalResults |-> n] : n \in TotalResults},
     offer_list :
        {Raises(KeyError), Raises(TypeError), [offers |-> <<>>],
         [pagination |-> Raises(KeyError)]}
        \cup {[pagination |-> [total_results |-> n]] : n \in TotalResults},
     groupedOffers :
        {Raises(KeyError), Raises(TypeError)}
        \cup {[list |-> [i \in 1..k |-> "offer"]] : k \in 0..FetchJobs}]

\* One function is called on arguments drawn from a set.
InitCall(f, inputs) ==
    /\ fn = f
    /\ args \in inputs
    /\ ret = <<>>
    /\ progress_file = <<>>
    /\ batch_files = <<>>
    /\ consolidated_file = <<>>
    /\ dir_listing = <<>>
    /\ InitProcess
    /\ NoDetailCall

GetTotalPagesReturn ==
    /\ fn = "get_total_pages"
    /\ ret = <<>>
    /\ ret' = <<GetTotalPages(args.data)>>
    /\ UNCHANGED <<fn, args, disk, proc, page, hist, extract>>

InitPages == InitCall("get_total_pages", [data : PageData])

NextPages == GetTotalPagesReturn

\* One call of get_total_pages.
SpecPages == InitPages /\ [][NextPages]_vars

\* ------------------------------------------------- extract_job_listings
\* dict.get(key, default)
Get(d, key, default) == IF key \in DOMAIN d THEN d[key] ELSE default

\* The body of the per-offer try statement: the exception it raises, or
\* the job_listing dict it builds. offer.offers is what offer['offers'][0]
\* comes to: an exception, or the first sub-offer.
OfferRecord(offer) ==
    IF Raised(offer.offers) THEN offer.offers
    ELSE IF "partitionId" \notin DOMAIN offer.offers THEN Raises(KeyError)
    ELSE [id |-> offer.offers.partitionId,
          title |-> Get(offer, "jobTitle", "No Title"),
          company |-> Get(offer, "companyName", "Unknown Company"),
          location |-> Get(offer.offers, "displayWorkplace", "No Location"),
          technologies |-> Get(offer, "technologies", <<>>),
          requirements |-> <<>>,
          responsibilities |-> <<>>,
          offered |-> <<>>,
          benefits |-> <<>>,
          work_organization |-> <<>>]

\* Mutant: an offer that raises ends the extraction with an empty list.
AfterOfferAbort(listings, r) ==
    IF Raised(r) THEN <<>> ELSE Append(listings, r)

\* job_listings.append(job_listing), or except Exception: continue
AfterOffer(listings, r) ==
    IF Raised(r) THEN listings ELSE Append(listings, r)

RECURSIVE ForOffers(_, _)
ForOffers(grouped_offers, listings) ==
    IF grouped_offers = <<>> THEN listings
    ELSE ForOffers(Tail(grouped_offers),
                   AfterOffer(listings, OfferRecord(Head(grouped_offers))))

\* The list returned, or the exception that leaves the function: the outer
\* handler is 'except KeyError'.
ExtractJobListings(data) ==
    IF Raised(data.groupedOffers)
    THEN IF data.groupedOffers.raises = KeyError THEN <<>>
         ELSE data.groupedOffers
    ELSE ForOffers(data.groupedOffers.list, <<>>)

\* Offers of a listing page: with and without the optional keys, and the
\* ways the lookup of offer['offers'][0]['partitionId'] fails.
PageOffers ==
    {[offers |-> [partitionId |-> i, displayWorkplace |-> "w"],
      jobTitle |-> "t", companyName |-> "c", technologies |-> t] :
         i \in 1..2, t \in {<<>>, <<"Python">>}}
    \cup {[offers |-> [partitionId |-> 3]]}
    \cup {[offers |-> o, jobTitle |-> "t"] :
             o \in {Raises(KeyError), Raises(TypeError), Raises(IndexError),
                    [displayWorkplace |-> "w"]}}

ListingData ==
    [groupedOffers :
        {Raises(KeyError), Raises(TypeError), Raises(IndexError)}
        \cup {[list |-> l] :
                 l \in UNION {[1..n -> PageOffers] : n \in 0..FetchJobs}}]

ExtractJobListingsReturn ==
    /\ fn = "extract_job_listings"
    /\ ret = <<>>
    /\ ret' = <<ExtractJobListings(args.data)>>
    /\ UNCHANGED <<fn, args, disk, proc, page, hist, extract>>

InitListings == InitCall("extract_job_listings", [data : ListingData])

NextListings == ExtractJobListingsReturn

\* One call of extract_job_listings.
SpecListings == InitListings /\ [][NextListings]_vars

\* ---------------------------------------------- add_rate_limiting_delay
\* Times are in milliseconds and the factor in fifths, so that
\* base_delay * backoff_factor is an integer for base delays that are
\* multiples of 5 ms.

\* 5 * (1.0 + (0.2 * (current_page // 10)))
BackoffFactor5(page_number) == 5 + (page_number \div 10)

\* Mutant: the delay is not capped.
DelayUncapped(base_delay, page_number) ==
    (base_delay * BackoffFactor5(page_number)) \div 5

\* min(base_delay * backoff_factor, 15)
Delay(base_delay, page_number) ==
    LET scaled == (base_delay * BackoffFactor5(page_number)) \div 5
    IN  IF scaled < 15000 THEN scaled ELSE 15000

\* random.uniform(3, 5), both ends included
BaseDelays == {3000, 3005, 3500, 4000, 4500, 4995, 5000}

AddRateLimitingDelayReturn ==
    /\ fn = "add_rate_limiting_delay"
    /\ ret = <<>>
    /\ \E base_delay \in BaseDelays :
           ret' = <<[base_delay |-> base_delay,
                     delay |-> Delay(base_delay, args.current_page)]>>
    /\ UNCHANGED <<fn, args, disk, proc, page, hist, extract>>

InitDelay ==
    InitCall("add_rate_limiting_delay", [current_page : 1..MaxPageNumber])

NextDelay == AddRateLimitingDelayReturn

\* One call of add_rate_limiting_delay.
SpecDelay == InitDelay /\ [][NextDelay]_vars

\* ======================================================================
\* Properties
\* ======================================================================
\* fetch_job_details has returned to scrape_page (an interrupt never
\* returns: it unwinds to main).
Returned == pc = "page_end"

Ids(jobs) == [k \in DOMAIN jobs |-> jobs[k].id]

\* C1: the detail-fetch orchestrator never drops a record: whatever the
\* outcomes of the detail requests, the sequence it returns is as long as
\* its input and holds every input record exactly once, enriched or not.
C1_NoRecordDropped ==
    Returned =>
        /\ Len(enhanced_listings) = Len(job_listings)
        /\ \A i \in DOMAIN job_listings :
              Cardinality({k \in DOMAIN enhanced_listings :
                             enhanced_listings[k].id = job_listings[i].id}) = 1

\* A full page came back through the concurrent path with enriched and
\* un-enriched records.
C1_Witness ==
    /\ Returned
    /\ task # <<>>
    /\ Len(job_listings) = FetchJobs
    /\ \E k \in DOMAIN enhanced_listings : enhanced_listings[k].enriched
    /\ \E k \in DOMAIN enhanced_listings : ~enhanced_listings[k].enriched

\* C2: the returned sequence lists the records in listing order, whatever
\* the order in which the concurrent detail fetches completed.
C2_InputOrderPreserved ==
    Returned => Ids(enhanced_listings) = Ids(job_listings)

\* The fetches completed out of listing order.
C2_Witness ==
    /\ Returned
    /\ Len(completed) >= 2
    /\ \E a, b \in DOMAIN completed : a < b /\ completed[a] > completed[b]

\* C3: at every moment at most max_concurrent detail fetches are in flight
\* (hold the semaphore: pre-request delay, awaiting the response, 429
\* cooldown), and once the orchestrator is left no permit is held.
C3_ConcurrencyBound ==
    /\ Cardinality(InFlight) <= max_concurrent
    /\ semaphore = max_concurrent - Cardinality(InFlight)
    /\ pc # "async" => InFlight = {} /\ semaphore = max_concurrent

\* The gate is closed: all permits are taken, one of them by a task in its
\* 429 cooldown, and another task is waiting.
C3_Witness ==
    /\ pc = "async"
    /\ Cardinality(InFlight) = max_concurrent
    /\ \E i \in DOMAIN task : task[i] = "waiting"
    /\ \E i \in DOMAIN task : task[i] = "cooldown"

\* C4: a record's detail URL is requested at most once while its page is
\* processed, on both paths; after a 429 the task sleeps the cooldown and
\* then returns the record un-enriched, without a second request.
C4_NoRetryAfter429 ==
    /\ [](\A i \in DOMAIN detail_requests : detail_requests[i] <= 1)
    /\ [][\A i \in DOMAIN task :
            (task[i] = "cooldown" /\ task'[i] # "cooldown") =>
                /\ task'[i] \in {"done", "cancelled"}
                /\ detail_requests'[i] = detail_requests[i]
                /\ task'[i] = "done" => results'[i] = job_listings[i]]_vars

\* A record that got a 429 has been returned after its cooldown, with one
\* request made for it.
C4_Witness ==
    /\ pc = "async"
    /\ \E i \in DOMAIN task :
          /\ task[i] = "done"
          /\ ~results[i].enriched
          /\ detail_requests[i] = 1
    /\ \E i \in DOMAIN task : task[i] = "cooldown" /\ detail_requests[i] = 1

\* ---------------------------------------------------------------- runs
\* load_progress found a cursor that names a page: the run resumes.
Resumed == pc # "start" /\ loaded.current_page >= 1

\* C5: a run that starts from a readable progress file with current_page
\* p >= 1 makes no bootstrap fetch, requests no listing page below p, and
\* the first listing page it requests is p (it requests p whenever
\* p <= total_pages and the loop runs to its end).
C5_ResumeStartsAtCursor ==
    Resumed =>
        /\ ~bootstrapped
        /\ \A k \in DOMAIN requested : requested[k] >= loaded.current_page
        /\ requested # <<>> => requested[1] = loaded.current_page
        /\ (/\ exit_cause = "complete"
            /\ loaded.current_page <= loaded.total_pages) => requested # <<>>

\* A run resumed at page 2 of 2 has requested page 2 and nothing else.
C5_Witness ==
    /\ Resumed
    /\ loaded.current_page = 2
    /\ loaded.total_pages = 2
    /\ requested = <<2>>
    /\ pc = "done"

\* C6: on a resumed run batch numbering continues after the earlier runs':
\* no batch file written by an earlier run is overwritten.
C6_EarlierBatchesKept ==
    [][Resumed =>
         \A n \in DOMAIN batch_files :
            batch_files[n].run < run =>
               n \in DOMAIN batch_files' /\ batch_files'[n] = batch_files[n]]_vars

\* The batch files this run has written, and the records it has collected.
Mine == {n \in DOMAIN batch_files : batch_files[n].run = run}

Collected ==
    jobs_collected - (IF bootstrapped THEN 0 ELSE loaded.jobs_collected)

RECURSIVE SumLen(_)
SumLen(S) ==
    IF S = {} THEN 0
    ELSE LET n == CHOOSE m \in S : TRUE
         IN  Len(batch_files[n].jobs) + SumLen(S \ {n})

CeilDiv(a, b) == (a + b - 1) \div b

\* The run is over and had entered the page loop.
LeftPaging == exit_cause \in {"complete", "error", "interrupt"}

Drained == pc = "done" /\ LeftPaging

\* between the entry into the page loop and the finally block
InLoop == pc \in {"loop", "listing", "async", "sync", "page_end", "delay"}

\* C7 as stated: a run that accumulates T records writes ceil(T/BATCH_SIZE)
\* batch files, each but the last of exactly BATCH_SIZE records, the last
\* with the remainder.
C7_ExactBatches ==
    Drained =>
        LET k == Cardinality(Mine) IN
        /\ k = CeilDiv(Collected, BATCH_SIZE)
        /\ \A n \in Mine :
              Len(batch_files[n].jobs) =
                 IF n < k THEN BATCH_SIZE ELSE Collected - BATCH_SIZE * (k - 1)

\* C7, amended: the accumulator is flushed whole as soon as it holds at
\* least BATCH_SIZE records after a page was appended, and the flush clears
\* it.  The run's batch files are numbered 1..k in the order written, there
\* are at most ceil(T/BATCH_SIZE) of them, they hold the T collected records
\* between them, and every file but the last holds at least BATCH_SIZE
\* records (the last one the non-empty remainder, or a full flush).
C7_BatchBoundary ==
    LET k == Cardinality(Mine) IN
    /\ Mine = 1..k
    /\ InLoop \/ pc = "finally" =>
          /\ batch_number = k + 1
          /\ \A n \in Mine : Len(batch_files[n].jobs) >= BATCH_SIZE
          /\ SumLen(Mine) + Len(current_batch) = Collected
    /\ InLoop /\ pc # "page_end" => Len(current_batch) < BATCH_SIZE
    /\ Drained =>
          /\ SumLen(Mine) = Collected
          /\ k <= CeilDiv(Collected, BATCH_SIZE)
          /\ \A n \in Mine :
                /\ n < k => Len(batch_files[n].jobs) >= BATCH_SIZE
                /\ n = k => Len(batch_files[n].jobs) >= 1

\* A capacity flush of exactly BATCH_SIZE records was followed by the
\* final flush of the remainder.
C7_Witness ==
    /\ Drained
    /\ Mine = {1, 2}
    /\ Len(batch_files[1].jobs) = BATCH_SIZE
    /\ Len(batch_files[2].jobs) = 1
    /\ Collected = BATCH_SIZE + 1

C9_NoFetchCancelled ==
    \A i \in DOMAIN task : task[i] # "cancelled"

\* C9, amended: an interrupt is observed at once, at the blocking call in
\* progress.  When it arrives while a page's details are fetched, the
\* fetches that have not returned are cancelled and release their permits,
\* the page's records are not accumulated, the cursor still names that
\* page at most, and the run goes straight to the finally block.
C9_InterruptAbortsPage ==
    exit_cause = "interrupt" =>
        /\ pc \in {"finally", "done"}
        /\ \A i \in DOMAIN task : task[i] \in {"done", "cancelled"}
        /\ InFlight = {}
        /\ semaphore = max_concurrent
        /\ job_listings # <<>> =>
              /\ \A i \in DOMAIN job_listings :
                    /\ \A k \in DOMAIN current_batch :
                          current_batch[k].id # job_listings[i].id
                    /\ \A n \in DOMAIN batch_files :
                          \A k \in DOMAIN batch_files[n].jobs :
                             batch_files[n].jobs[k].id # job_listings[i].id
              /\ Readable(progress_file) =>
                    progress_file[1].current_page <= current_page

\* An interrupt found one fetch returned and cancelled the others; the run
\* has drained.
C9_Witness ==
    /\ exit_cause = "interrupt"
    /\ pc = "done"
    /\ \E i \in DOMAIN task : task[i] = "done"
    /\ \E i \in DOMAIN task : task[i] = "cancelled"

\* scrape_page returned [] for the current page.
FailedPage == pc = "page_end" /\ enhanced_listings = <<>>

\* C10: a failed page (listing fetch failed, no data blob, no listings)
\* does not end the loop: it adds nothing to the accumulator, to
\* jobs_collected or to the batch files, save_progress is called with the
\* next page, and the loop goes on to page p + 1; no page is requested
\* twice.
C10_FailedPageSkipped ==
    /\ [][FailedPage =>
            /\ pc' = "delay"
            /\ current_batch' = current_batch
            /\ jobs_collected' = jobs_collected
            /\ batch_files' = batch_files
            /\ batch_number' = batch_number
            /\ current_page' = current_page
            /\ progress_file' \in
                 {progress_file,
                  <<ProgressRecord(current_page + 1, total_pages, jobs_collected)>>}]_vars
    /\ [][pc = "delay" /\ pc' # "delay" =>
            \/ pc' = "loop" /\ current_page' = current_page + 1
            \/ pc' = "finally" /\ exit_cause' = "interrupt"]_vars
    /\ [](\A k \in DOMAIN requested :
             k > 1 => requested[k] = requested[k - 1] + 1)

\* Page 1 failed, the cursor was saved as page 2, and page 2 is being
\* requested.
C10_Witness ==
    /\ pc = "listing"
    /\ requested = <<1, 2>>
    /\ jobs_collected = 0
    /\ current_batch = <<>>
    /\ progress_file = <<ProgressRecord(2, total_pages, 0)>>

\* C11: within one run the listing pages are requested one at a time in
\* increasing order: the k-th page requested is start_page + k - 1, so no
\* page is requested twice; the page being worked on is the last one
\* requested; and a page is requested only from the head of the loop, with
\* no detail fetch of the previous page in flight and after the previous
\* page's accumulation and save_progress call (the loop head is re-entered
\* only from the rate-limiting delay, which follows them).
C11_PagesInOrder ==
    /\ [](\A k \in DOMAIN requested : requested[k] = start_page + k - 1)
    /\ [](pc \in {"listing", "async", "sync", "page_end", "delay"} =>
             /\ requested # <<>>
             /\ requested[Len(requested)] = current_page)
    /\ [][requested' # requested =>
             /\ pc = "loop"
             /\ requested' = Append(requested, current_page)
             /\ InFlight = {}
             /\ task = <<>>
             /\ enhanced_listings = <<>>]_vars
    /\ [][pc' = "loop" /\ pc # "loop" =>
             \/ requested = <<>> /\ pc \in {"start", "bootstrap"}
             \/ pc = "delay"]_vars
    /\ [][pc' = "delay" /\ pc # "delay" => pc = "page_end"]_vars

\* A run is fetching the details of page 2 after page 1 was
\* enriched, accumulated and saved.
C11_Witness ==
    /\ pc = "async"
    /\ requested = <<1, 2>>
    /\ jobs_collected > 0
    /\ Readable(progress_file)
    /\ progress_file[1].current_page = 2

\* C12: when page p has been processed and save_progress succeeds, the
\* progress file holds exactly one record, with current_page = p + 1, the
\* run's total_pages and jobs_collected equal to the in-memory count (the
\* count before the page plus the page's records); load_progress on that
\* file returns those three values, and a run that resumes from a progress
\* file starts with the values the file holds.
C12_ProgressPersisted ==
    /\ [][pc = "page_end" /\ progress_file' # progress_file =>
             /\ Len(progress_file') = 1
             /\ progress_file'[1].current_page = current_page + 1
             /\ progress_file'[1].total_pages = total_pages
             /\ progress_file'[1].jobs_collected = jobs_collected'
             /\ jobs_collected' = jobs_collected + Len(enhanced_listings)
             /\ LoadedProgress(progress_file').current_page = current_page + 1
             /\ LoadedProgress(progress_file').total_pages = total_pages
             /\ LoadedProgress(progress_file').jobs_collected = jobs_collected']_vars
    /\ [][progress_file' # progress_file => pc = "page_end"]_vars
    /\ [](Resumed /\ requested = <<>> /\ pc = "loop" =>
             /\ Len(progress_file) = 1
             /\ start_page = progress_file[1].current_page
             /\ total_pages = progress_file[1].total_pages
             /\ jobs_collected = progress_file[1].jobs_collected)

\* Page 2 of a run was processed with records on both pages and the save
\* succeeded: the file names page 3 and the count of both pages.
C12_Witness ==
    /\ pc = "delay"
    /\ current_page = 2
    /\ requested = <<1, 2>>
    /\ enhanced_listings = <<>>
    /\ jobs_collected >= 2
    /\ progress_file = <<[current_page |-> 3, total_pages |-> 2,
                          jobs_collected |-> jobs_collected]>>

\* C13: a save_progress call that fails (the progress file stays as it
\* was) does not end the run: the page's records are still counted and
\* accumulated in memory, the run goes on to the delay and then to page
\* current_page + 1 with the in-memory count, and no batch file written so
\* far is changed or removed, then or later in the run.
C13_SaveFailureNonFatal ==
    /\ [][pc = "page_end" /\ progress_file' = progress_file =>
             /\ pc' = "delay"
             /\ exit_cause' = "none"
             /\ current_page' = current_page
             /\ total_pages' = total_pages
             /\ jobs_collected' = jobs_collected + Len(enhanced_listings)
             /\ current_batch' \in {<<>>, current_batch \o enhanced_listings}
             /\ \A n \in DOMAIN batch_files :
                   /\ n \in DOMAIN batch_files'
                   /\ batch_files'[n] = batch_files[n]]_vars
    /\ [][pc = "delay" /\ pc' = "loop" =>
             /\ current_page' = current_page + 1
             /\ jobs_collected' = jobs_collected
             /\ progress_file' = progress_file]_vars
    /\ [][\A n \in DOMAIN batch_files :
             /\ n \in DOMAIN batch_files'
             /\ batch_files'[n] = batch_files[n]]_vars

\* The save after page 1 failed (there is still no progress file), page
\* 1's batch file is on disk, and page 2 is being requested with the
\* in-memory count.
C13_Witness ==
    /\ pc = "listing"
    /\ requested = <<1, 2>>
    /\ progress_file = <<>>
    /\ jobs_collected = BATCH_SIZE
    /\ 1 \in DOMAIN batch_files
    /\ Len(batch_files[1].jobs) = BATCH_SIZE

\* C14: when there is no progress file, or the file cannot be read,
\* load_progress returns (None, None, 0) and the run bootstraps: it fetches
\* the first page for total_pages and, when that succeeds, enters the loop
\* at page 1 with jobs_collected = 0 and the page count the fetch gave.
C14_FreshStartDefault ==
    /\ [][pc = "start" /\ ~Readable(progress_file) =>
             /\ loaded' = [current_page |-> None, total_pages |-> None,
                           jobs_collected |-> 0]
             /\ start_page' = None
             /\ total_pages' = None
             /\ jobs_collected' = 0
             /\ pc' = "bootstrap"
             /\ bootstrapped'
             /\ requested' = <<>>]_vars
    /\ [][pc = "bootstrap" /\ pc' = "loop" =>
             /\ start_page' = 1
             /\ current_page' = 1
             /\ jobs_collected' = 0
             /\ total_pages' >= 0
             /\ requested' = <<>>]_vars
    /\ [](pc = "bootstrap" => ~Readable(progress_file))
    /\ [](bootstrapped /\ requested # <<>> => requested[1] = 1)

\* A run that found a progress file it could not read has bootstrapped
\* and is requesting page 1; the file is still as it was.
C14_Witness ==
    /\ progress_file = <<Corrupt>>
    /\ bootstrapped
    /\ pc = "listing"
    /\ requested = <<1>>
    /\ jobs_collected = 0
    /\ total_pages = RunPages

Triple(job) == <<job.title, job.company, job.location>>

\* The records consolidate_data read, in the order it read them.
AllJobs == Flatten(batch_files, dir_listing)

\* C16 as stated: after consolidation the output holds exactly one record
\* for every (title, company, location) that occurs in a batch file, equal
\* to the last record with that triple in processing order, and nothing
\* else.
C16_OnePerTriple ==
    (pc = "done" /\ consolidated_file # <<>> /\ consolidated_file[1].run = run) =>
        LET out == consolidated_file[1].jobs IN
          /\ \A a \in DOMAIN AllJobs :
                /\ Cardinality({c \in DOMAIN out :
                                   Triple(out[c]) = Triple(AllJobs[a])}) = 1
                /\ (\A b \in DOMAIN AllJobs :
                       b > a => Triple(AllJobs[b]) # Triple(AllJobs[a]))
                   => \E c \in DOMAIN out : out[c] = AllJobs[a]
          /\ \A c \in DOMAIN out : \E a \in DOMAIN AllJobs : AllJobs[a] = out[c]

Extracted == detail_pc = "returned" /\ job_offer_data.found

\* A section of the page raised while it was merged.
SectionRaised == PrimaryPass(job_before, job_offer_data.sections).raised

DetailFields ==
    {"technologies", "requirements", "responsibilities", "offered", "benefits"}

\* C18 as stated: extract_job_details returns normally, and when a step of
\* the extraction fails every field of the returned record has the value
\* it had before the call.
C18_AllOrNothing ==
    (Extracted /\ SectionRaised) =>
        \A f \in DetailFields : job_listing[f] = job_before[f]

\* The technology names of the page's technologies sections in the order
\* the code meets them: customItems, then items, section after section.
RECURSIVE PageTechNames(_)
PageTechNames(sections) ==
    IF sections = <<>> THEN <<>>
    ELSE (IF Head(sections).sectionType = "technologies"
          THEN Head(sections).customItems \o Head(sections).items
          ELSE <<>>) \o PageTechNames(Tail(sections))

\* position of the first occurrence of x in list
FirstAt(list, x) == CHOOSE i \in DOMAIN list :
                       list[i] = x /\ \A k \in 1..(i - 1) : list[k] # x

\* the text sections of the page that back up field f
TextFor(f) ==
    {i \in DOMAIN job_offer_data.textSections :
        BackupField(job_offer_data.textSections[i].sectionType) = f}

C20_PrimaryWins ==
    (Extracted /\ ~SectionRaised) =>
        \A f \in DetailFields :
            LET primary == PrimaryPass(job_before, job_offer_data.sections).job[f]
            IN  /\ primary # <<>> => job_listing[f] = primary
                /\ (primary = <<>> /\ TextFor(f) = {}) => job_listing[f] = <<>>
                /\ (primary = <<>> /\ TextFor(f) # {}) =>
                      job_listing[f] =
                         job_offer_data.textSections[
                            CHOOSE i \in TextFor(f) :
                               \A k \in TextFor(f) : i <= k].textElements

\* The page has requirements bullets and text sections for requirements
\* and for benefits: the bullets were kept, the benefits came from the
\* text.
C20_Witness ==
    /\ Extracted
    /\ ~SectionRaised
    /\ TextFor("requirements") # {}
    /\ TextFor("benefits") # {}
    /\ job_listing.requirements = <<"r">>
    /\ job_listing.benefits = <<"Rust">>

\* The call of the function has returned.
Called(f) == fn = f /\ ret # <<>>

\* n results fill exactly k pages of RESULTS_PER_PAGE, the last maybe partly.
CeilOf(k, n) == k * RESULTS_PER_PAGE >= n /\ (k - 1) * RESULTS_PER_PAGE < n

LookupFailure(o) == Raised(o) /\ o.raises \in {"KeyError", "TypeError"}

LevelOutcome(level) ==
    CASE level = "primary" -> PrimaryPath(args.data)
      [] level = "secondary" -> AlternativePath1(args.data)
      [] level = "count" -> AlternativePath2(args.data)
      [] level = "default" -> Returns(<<900, 18000>>)

LevelOrder == <<"primary", "secondary", "count", "default">>

\* C22 as stated: a level after the first is entered only when the level
\* before it raised a lookup failure (KeyError or TypeError).
C22_NextOnlyAfterLookupFailure ==
    Called("get_total_pages") =>
        \A k \in 2..Len(ret[1].tried) :
            LookupFailure(LevelOutcome(ret[1].tried[k - 1]))

\* C22: the levels are entered in the fixed order primary, secondary,
\* count, default; a level after the first is entered exactly when the one
\* before it raised a lookup failure or completed without returning a
\* value; the call returns the value of the first level that returns one,
\* and after any other exception no further level is entered and the outer
\* handler returns the fixed default (900, 18000).
C22_FallbackOrder ==
    Called("get_total_pages") =>
        LET r == ret[1]
            n == Len(r.tried)
            last == LevelOutcome(r.tried[n])
        IN  /\ n \in 1..4
            /\ r.tried = SubSeq(LevelOrder, 1, n)
            /\ \A k \in 2..n :
                   LET prev == LevelOutcome(r.tried[k - 1])
                   IN  LookupFailure(prev) \/ prev = Falls
            /\ \/ /\ HasReturned(last)
                  /\ r.site = r.tried[n]
                  /\ <<r.total_pages, r.total_results>> = last.returns
               \/ /\ Raised(last)
                  /\ ~LookupFailure(last)
                  /\ r.site = "unexpected"
                  /\ <<r.total_pages, r.total_results>> = <<900, 18000>>

C22_Witness ==
    /\ Called("get_total_pages")
    /\ args.data.pagination = Raises(TypeError)
    /\ args.data.offer_list = [offers |-> <<>>]
    /\ Len(args.data.groupedOffers.list) = 2
    /\ ret[1].tried = <<"primary", "secondary", "count">>
    /\ ret[1].total_results = 1800

\* The offer has what the record needs: a first sub-offer with an id.
WellFormed(offer) ==
    ~Raised(offer.offers) /\ "partitionId" \in DOMAIN offer.offers

\* C23: on a page whose groupedOffers is a list, extract_job_listings
\* returns one record per well-formed offer and none for a malformed one,
\* in page order, each with the id of its offer and with requirements,
\* responsibilities, offered, benefits and work_organization empty.
C23_FaultIsolated ==
    Called("extract_job_listings") /\ ~Raised(args.data.groupedOffers) =>
        LET good == SelectSeq(args.data.groupedOffers.list, WellFormed)
            got == ret[1]
        IN  /\ Len(got) = Len(good)
            /\ \A k \in 1..Len(good) :
                   /\ got[k].id = good[k].offers.partitionId
                   /\ "jobTitle" \in DOMAIN good[k] =>
                          got[k].title = good[k].jobTitle
                   /\ got[k].requirements = <<>>
                   /\ got[k].responsibilities = <<>>
                   /\ got[k].offered = <<>>
                   /\ got[k].benefits = <<>>
                   /\ got[k].work_organization = <<>>

C23_Witness ==
    /\ Called("extract_job_listings")
    /\ ~Raised(args.data.groupedOffers)
    /\ Len(args.data.groupedOffers.list) = 3
    /\ WellFormed(args.data.groupedOffers.list[1])
    /\ args.data.groupedOffers.list[2].offers = Raises(IndexError)
    /\ WellFormed(args.data.groupedOffers.list[3])
    /\ Len(ret[1]) = 2
    /\ ret[1][1].id = 2
    /\ ret[1][2].id = 1

ReadableName(n) == BatchReadable(batch_files[n])

\* C25: when the batch directory holds files that cannot be read,
\* consolidate_data still writes its output, and the output is what the
\* readable files alone give, in the order they were listed: each of its
\* records is in a readable file and each record of a readable file has
\* its key in the output.
C25_UnreadableSkipped ==
    pc = "done" /\ DOMAIN batch_files # {} =>
        /\ consolidated_file # <<>>
        /\ consolidated_file[1].run = run
        /\ LET out == consolidated_file[1].jobs
               names == SelectSeq(dir_listing, ReadableName)
           IN  /\ out = ConsolidateData(batch_files, names)
               /\ \A c \in DOMAIN out :
                      \E n \in DOMAIN batch_files :
                          /\ ReadableName(n)
                          /\ \E j \in DOMAIN batch_files[n].jobs :
                                 batch_files[n].jobs[j] = out[c]
               /\ \A n \in DOMAIN batch_files :
                      ReadableName(n) =>
                          \A j \in DOMAIN batch_files[n].jobs :
                              \E c \in DOMAIN out :
                                  Key(out[c]) = Key(batch_files[n].jobs[j])

\* The unreadable file was listed first and the records of the readable
\* one are in the output.
C25_Witness ==
    /\ pc = "done"
    /\ DOMAIN batch_files = {1, 2}
    /\ batch_files[2] = Unreadable
    /\ dir_listing = <<2, 1>>
    /\ Len(batch_files[1].jobs) = 2
    /\ consolidated_file # <<>>
    /\ Len(consolidated_file[1].jobs) = 2

\* The records in this run's batch files, in the order of the file numbers.
RECURSIVE FileRecords(_)
FileRecords(k) ==
    IF k = 0 THEN <<>>
    ELSE FileRecords(k - 1)
         \o (IF k \in Mine THEN batch_files[k].jobs ELSE <<>>)

Written == FileRecords(Cardinality(DOMAIN batch_files))

\* Written and accumulated records of this run.
Held == Written \o current_batch

NoIdTwice(jobs) ==
    \A a, b \in DOMAIN jobs : jobs[a].id = jobs[b].id => a = b

C27_CounterAccounting ==
    /\ [](pc \in {"loop", "delay"} =>
            jobs_collected =
                loaded.jobs_collected + SumLen(Mine) + Len(current_batch))
    /\ [][pc # "start" => jobs_collected' >= jobs_collected]_vars

\* A run resumed with a count of 2 has written a batch file of 2 records
\* and holds none.
C27_Witness ==
    /\ pc = "delay"
    /\ loaded.jobs_collected = 2
    /\ jobs_collected = 4
    /\ Mine = {1}
    /\ Len(batch_files[1].jobs) = 2
    /\ current_batch = <<>>

\* The progress file on disk is readable and holds this cursor and total.
Stored(cp, tp) ==
    /\ Readable(progress_file)
    /\ progress_file[1].current_page = cp
    /\ progress_file[1].total_pages = tp

\* The run was started from the cursor of a run that went through all
\* pages.
AfterComplete ==
    /\ Resumed
    /\ loaded.total_pages # None
    /\ loaded.current_page = loaded.total_pages + 1

\* C28: a run started from a progress file whose cursor is total_pages + 1
\* enters the loop without a bootstrap request, requests no listing page
\* and no detail page, writes no batch file and leaves the progress file as
\* it was; its only steps are the exhausted loop, the finally block and the
\* end of the run.
C28_NothingLeftToFetch ==
    /\ [][(\E t \in 1..RunPages : Stored(t + 1, t)) /\ pc = "start" =>
             pc' = "loop" /\ AfterComplete']_vars
    /\ [](AfterComplete =>
            /\ ~bootstrapped
            /\ requested = <<>>
            /\ detail_requests = <<>>
            /\ task = <<>>
            /\ batch_files = <<>>
            /\ progress_file = <<loaded>>
            /\ pc \in {"loop", "finally", "done"}
            /\ pc \in {"finally", "done"} => exit_cause = "complete")
    /\ [][AfterComplete /\ pc = "loop" => pc' = "finally"]_vars
    /\ [][AfterComplete /\ pc = "finally" => pc' = "done"]_vars

C28_Witness ==
    /\ AfterComplete
    /\ loaded.total_pages = 2
    /\ pc = "done"
    /\ exit_cause = "complete"
    /\ requested = <<>>
    /\ progress_file = <<ProgressRecord(3, 2, 0)>>

\* The run was started from a cursor without a page count.
NoTotal == Resumed /\ loaded.total_pages = None

\* C29: a run started from a progress file with current_page set and
\* total_pages null does not bootstrap the page count, requests no listing
\* page and leaves the progress file as it was; the loop header fails, the
\* failure is caught, and the only steps left are the finally block and
\* the end of the run.
C29_NullTotalResume ==
    /\ [][Stored(1, None) /\ pc = "start" => pc' = "loop" /\ NoTotal']_vars
    /\ [](NoTotal =>
            /\ ~bootstrapped
            /\ total_pages = None
            /\ requested = <<>>
            /\ progress_file = <<loaded>>
            /\ pc \in {"loop", "finally", "done"}
            /\ pc \in {"finally", "done"} => exit_cause = "error")
    /\ [][NoTotal /\ pc = "loop" => pc' = "finally"]_vars
    /\ [][NoTotal /\ pc = "finally" => pc' = "done"]_vars

C29_Witness ==
    /\ NoTotal
    /\ pc = "done"
    /\ exit_cause = "error"
    /\ ~bootstrapped
    /\ requested = <<>>
    /\ progress_file = <<ProgressRecord(1, None, 0)>>

====
